---- MODULE Spec2Model ----
(***************************************************************************)
(* Model of tools/codegen/api/types.py: the derivation of the C++ API,     *)
(* dispatcher and native signatures of one function schema.                *)
(*                                                                         *)
(* Representation.                                                         *)
(*   - A Python str field (a type, a name, a default) is a TLA+ string.    *)
(*   - Optional[X] is a sequence: None is << >>, a present x is << x >>.   *)
(*   - A frozen dataclass is a record; a closed Union carries a "kind"     *)
(*     field naming the class.                                             *)
(*   - Rendered text (str(), decl(), defn(), type()) is the sequence of    *)
(*     its lexical pieces: each interpolated field is one token and each   *)
(*     literal character of the f-string (" ", "(", ")", ",", "=") is one  *)
(*     token, so that two renderings are equal exactly when they are made  *)
(*     of the same pieces in the same order.                               *)
(*   - A raised exception is the result [ok |-> FALSE, error |-> kind];    *)
(*     a returned value v is [ok |-> TRUE, value |-> v].                   *)
(***************************************************************************)
EXTENDS Naturals, Sequences, FiniteSets, TLC

VARIABLES func, method, pc, dispatcher_sig, native_sig, cpp_group, grouper_runs, out

vars == <<func, method, pc, dispatcher_sig, native_sig, cpp_group, grouper_runs, out>>

\* ------------------------------------------------------------------ bounds

\* Most plain (non-receiver, non-options) arguments of a schema.
MaxPlain == 1

\* ------------------------------------------------------------ optionals

None == << >>

Some(x) == << x >>

Ok(v) == [ok |-> TRUE, value |-> v]

Raise(e) == [ok |-> FALSE, error |-> e]

\* ----------------------------------------------------------- sequences

RECURSIVE Flatten(_)
\* [x for s in ss for x in s]
Flatten(ss) ==
    IF ss = << >> THEN << >> ELSE Head(ss) \o Flatten(Tail(ss))

RECURSIVE Join(_, _)
\* sep.join(texts), on token sequences
Join(sep, texts) ==
    IF texts = << >> THEN << >>
    ELSE IF Len(texts) = 1 THEN texts[1]
    ELSE texts[1] \o sep \o Join(sep, Tail(texts))

\* ', '
CommaSpace == << ",", " " >>

Range(s) == { s[i] : i \in DOMAIN s }

\* ------------------------------------------------- the schema model (given)

\* A schema type descriptor: a base name, optional ("T?") or not.
Type(b, o) == [base |-> b, optional |-> o]

Argument(n, t, d) == [name |-> n, type |-> t, default |-> d]

\* The four recognised resource-options (TensorOptions) roles, in the field
\* order of TensorOptionsArguments.
Roles == << "dtype", "layout", "device", "pin_memory" >>

RoleSet == Range(Roles)

RoleBase(r) ==
    CASE r = "dtype" -> "ScalarType"
      [] r = "layout" -> "Layout"
      [] r = "device" -> "Device"
      [] r = "pin_memory" -> "bool"

\* An argument fills role r by its declared name and type.
IsRole(a, r) == a.name = r /\ a.type.base = RoleBase(r)

IsAnyRole(a) == \E r \in RoleSet : IsRole(a, r)

\* An argument is an eligible receiver by its declared name.
IsSelf(a) == a.name = "self"

PlainNames == << "n", "m", "k" >>

SelfArgument == Argument("self", Type("Tensor", FALSE), None)

PlainArgument(i, hasDefault) ==
    Argument(PlainNames[i], Type("int", FALSE), IF hasDefault THEN Some("1") ELSE None)

RoleArgument(r, hasDefault) ==
    Argument(r, Type(RoleBase(r), TRUE), IF hasDefault THEN Some("None") ELSE None)

\* The orders in which the chosen role arguments are declared: ascending,
\* descending and rotated by one.
Ascending(S) ==
    SelectSeq(Roles, LAMBDA r : r \in S)

Reverse(s) == [i \in 1..Len(s) |-> s[Len(s) + 1 - i]]

Rotate(s) == IF s = << >> THEN s ELSE Tail(s) \o << Head(s) >>

RoleOrders(S) == { Ascending(S), Reverse(Ascending(S)), Rotate(Ascending(S)) }

FunctionSchema(n, args, rets) == [name |-> n, arguments |-> args, returns |-> rets]

\* The schemas the generator is run on.
Schemas ==
    { FunctionSchema("foo",
          (IF hasSelf THEN << SelfArgument >> ELSE << >>)
            \o [i \in 1..np |-> PlainArgument(i, pd[i])]
            \o [i \in 1..Len(rs) |-> RoleArgument(rs[i], rd[rs[i]])],
          rets) :
        hasSelf \in BOOLEAN,
        np \in { k \in 0..MaxPlain : k <= Len(PlainNames) },
        pd \in [1..MaxPlain -> BOOLEAN],
        rs \in UNION { RoleOrders(S) : S \in SUBSET RoleSet },
        rd \in [RoleSet -> BOOLEAN],
        rets \in { << Type("Tensor", FALSE) >>, << Type("int", FALSE) >> } }

\* ------------------------------------------------------ grouping arguments

\* class ThisArgument
ThisArgument(a) == [kind |-> "ThisArgument", argument |-> a]

\* class TensorOptionsArguments
TensorOptionsArguments(dt, la, de, pm) ==
    [kind |-> "TensorOptionsArguments",
     dtype |-> dt, layout |-> la, device |-> de, pin_memory |-> pm]

\* TensorOptionsArguments.all
TensorOptionsArguments_all(t) == << t.dtype, t.layout, t.device, t.pin_memory >>

\* A plain Argument as a member of the grouped sequence
\* (Union[Argument, TensorOptionsArguments, ThisArgument]).
PlainGrouped(a) == [kind |-> "Argument", argument |-> a]

\* --------------------------------------------------------------- cpp types

\* class CppArgument
CppArgument(t, n, d, a) == [type |-> t, name |-> n, default |-> d, argument |-> a]

\* CppArgument.__str__
CppArgument_str(a) ==
    LET mb_default == IF a.default # None THEN << "=", a.default[1] >> ELSE << >>
    IN  << a.type, " ", a.name >> \o mb_default

\* CppArgument.no_default with the default carried over instead of dropped.
CppArgument_no_default_keeps(a) ==
    CppArgument(a.type, a.name, a.default, a.argument)

\* CppArgument.no_default
CppArgument_no_default(a) ==
    CppArgument(a.type, a.name, None, a.argument)

\* CppArgument.str_no_default
CppArgument_str_no_default(a) == << a.type, " ", a.name >>

\* class CppSingleArgumentPack
CppSingleArgumentPack(a) == [kind |-> "CppSingleArgumentPack", this |-> a]

\* CppSingleArgumentPack.no_default
CppSingleArgumentPack_no_default(p) ==
    CppSingleArgumentPack(CppArgument_no_default(p.this))

\* CppSingleArgumentPack.explicit_arguments
CppSingleArgumentPack_explicit_arguments(p) == << p.this >>

\* class CppThisArgumentPack
CppThisArgumentPack(a, t) == [kind |-> "CppThisArgumentPack", argument |-> a, type |-> t]

\* CppThisArgumentPack.no_default
CppThisArgumentPack_no_default(p) == p

\* CppThisArgumentPack.explicit_arguments listing the receiver as an argument.
CppThisArgumentPack_explicit_arguments_listed(p) ==
    << CppArgument(p.type, p.argument.argument.name, None, p.argument.argument) >>

\* CppThisArgumentPack.explicit_arguments
CppThisArgumentPack_explicit_arguments(p) == << >>

\* class CppTensorOptionsArgumentPack
CppTensorOptionsArgumentPack(a, dt, la, de, pm) ==
    [kind |-> "CppTensorOptionsArgumentPack", argument |-> a,
     dtype |-> dt, layout |-> la, device |-> de, pin_memory |-> pm]

\* CppTensorOptionsArgumentPack.no_default leaving pin_memory as it was.
CppTensorOptionsArgumentPack_no_default_partial(p) ==
    CppTensorOptionsArgumentPack(
        p.argument,
        CppArgument_no_default(p.dtype),
        CppArgument_no_default(p.layout),
        CppArgument_no_default(p.device),
        p.pin_memory)

\* CppTensorOptionsArgumentPack.no_default
CppTensorOptionsArgumentPack_no_default(p) ==
    CppTensorOptionsArgumentPack(
        p.argument,
        CppArgument_no_default(p.dtype),
        CppArgument_no_default(p.layout),
        CppArgument_no_default(p.device),
        CppArgument_no_default(p.pin_memory))

\* CppTensorOptionsArgumentPack.explicit_arguments without pin_memory.
CppTensorOptionsArgumentPack_explicit_arguments_short(p) ==
    << p.dtype, p.layout, p.device >>

\* CppTensorOptionsArgumentPack.explicit_arguments
CppTensorOptionsArgumentPack_explicit_arguments(p) ==
    << p.dtype, p.layout, p.device, p.pin_memory >>

\* a.no_default() on a member of the closed union CppArgumentPack
CppArgumentPack_no_default(p) ==
    CASE p.kind = "CppSingleArgumentPack" -> CppSingleArgumentPack_no_default(p)
      [] p.kind = "CppThisArgumentPack" -> CppThisArgumentPack_no_default(p)
      [] p.kind = "CppTensorOptionsArgumentPack" -> CppTensorOptionsArgumentPack_no_default(p)

\* a.explicit_arguments() on a member of the closed union CppArgumentPack
CppArgumentPack_explicit_arguments(p) ==
    CASE p.kind = "CppSingleArgumentPack" -> CppSingleArgumentPack_explicit_arguments(p)
      [] p.kind = "CppThisArgumentPack" -> CppThisArgumentPack_explicit_arguments(p)
      [] p.kind = "CppTensorOptionsArgumentPack" ->
             CppTensorOptionsArgumentPack_explicit_arguments(p)

\* ------------------------------------ tools.codegen.api.cpp (functions only)

\* The rendering of a schema type on a C++ surface; the three surfaces render
\* an argument's type alike.
argument_type(t) ==
    LET b == IF t.base = "int" THEN "Int64" ELSE t.base
    IN  IF t.optional THEN "Optional<" \o b \o ">" ELSE b

\* cpp.returns_type, dispatcher.returns_type, native.returns_type
returns_type(rets) == argument_type(rets[1])

\* cpp.name
cpp_name(f) == f.name

\* native.name
native_name(f) == f.name

\* The roles some argument of the schema fills.
RolesPresent(f) ==
    { r \in RoleSet : \E i \in DOMAIN f.arguments : IsRole(f.arguments[i], r) }

\* The argument of the schema that fills role r.
RoleArg(f, r) ==
    f.arguments[CHOOSE i \in DOMAIN f.arguments : IsRole(f.arguments[i], r)]

\* cpp.group_arguments: the receiver marked when method is set, the four
\* resource-options arguments bundled where the first of them stands, every
\* other argument kept in place.
cpp_group_arguments(f, m) ==
    LET args == f.arguments
        n == Cardinality(RolesPresent(f))
        first == CHOOSE i \in DOMAIN args :
                     /\ IsAnyRole(args[i])
                     /\ \A j \in 1..(i - 1) : ~IsAnyRole(args[j])
        bundle == TensorOptionsArguments(RoleArg(f, "dtype"), RoleArg(f, "layout"),
                                         RoleArg(f, "device"), RoleArg(f, "pin_memory"))
        one(i) ==
            IF m /\ i = 1 THEN << ThisArgument(args[i]) >>
            ELSE IF IsAnyRole(args[i]) THEN (IF i = first THEN << bundle >> ELSE << >>)
            ELSE << PlainGrouped(args[i]) >>
    IN  IF n \notin { 0, 4 } THEN Raise("PartialResourceOptionsGroup")
        ELSE IF m /\ (args = << >> \/ ~IsSelf(args[1])) THEN Raise("SchemaInvariantViolation")
        ELSE Ok(Flatten([i \in DOMAIN args |-> one(i)]))

\* The front argument of one schema argument.
cpp_plain_argument(a) == CppArgument(argument_type(a.type), a.name, a.default, a)

\* cpp.argument: the packs of the default signature.
cpp_argument(g) ==
    CASE g.kind = "Argument" -> CppSingleArgumentPack(cpp_plain_argument(g.argument))
      [] g.kind = "ThisArgument" -> CppThisArgumentPack(g, argument_type(g.argument.type))
      [] g.kind = "TensorOptionsArguments" ->
             CppSingleArgumentPack(CppArgument(
                 "ResourceOptions", "options",
                 IF \A i \in 1..4 : TensorOptionsArguments_all(g)[i].default # None
                 THEN Some("{}") ELSE None,
                 g))

\* cpp.argument_faithful: the packs of the faithful signature, before their
\* defaults are dropped.
cpp_argument_faithful(g) ==
    IF g.kind = "TensorOptionsArguments"
    THEN CppTensorOptionsArgumentPack(g,
             cpp_plain_argument(g.dtype), cpp_plain_argument(g.layout),
             cpp_plain_argument(g.device), cpp_plain_argument(g.pin_memory))
    ELSE cpp_argument(g)

\* ----------------------------------------------------------- CppSignature

\* class CppSignature
CppSignature(f, packs, ret) ==
    [func |-> f, argument_packs |-> packs, returns_type |-> ret]

\* CppSignature.arguments
CppSignature_arguments(sig) ==
    Flatten([i \in DOMAIN sig.argument_packs |->
                CppArgumentPack_explicit_arguments(sig.argument_packs[i])])

\* CppSignature.decl
CppSignature_decl(sig) ==
    LET args == CppSignature_arguments(sig)
        cpp_args_str == Join(CommaSpace, [i \in DOMAIN args |-> CppArgument_str(args[i])])
    IN  << sig.returns_type, " ", cpp_name(sig.func), "(" >> \o cpp_args_str \o << ")" >>

\* CppSignature.defn with the prefix put before an explicit name too.
CppSignature_defn_prefixed(sig, name, prefix) ==
    LET args == CppSignature_arguments(sig)
        cpp_args_str ==
            Join(CommaSpace, [i \in DOMAIN args |-> CppArgument_str_no_default(args[i])])
        nm == prefix \o (IF name = None THEN cpp_name(sig.func) ELSE name[1])
    IN  << sig.returns_type, " ", nm, "(" >> \o cpp_args_str \o << ")" >>

\* CppSignature.defn
CppSignature_defn(sig, name, prefix) ==
    LET args == CppSignature_arguments(sig)
        cpp_args_str ==
            Join(CommaSpace, [i \in DOMAIN args |-> CppArgument_str_no_default(args[i])])
        nm == IF name = None THEN prefix \o cpp_name(sig.func) ELSE name[1]
    IN  << sig.returns_type, " ", nm, "(" >> \o cpp_args_str \o << ")" >>

\* CppSignature._from_grouped_arguments dropping the defaults in both modes.
CppSignature_from_grouped_arguments_stripped(f, arguments, faithful) ==
    LET argument_packs ==
            IF faithful
            THEN [i \in DOMAIN arguments |->
                     CppArgumentPack_no_default(cpp_argument_faithful(arguments[i]))]
            ELSE [i \in DOMAIN arguments |->
                     CppArgumentPack_no_default(cpp_argument(arguments[i]))]
    IN  CppSignature(f, argument_packs, returns_type(f.returns))

\* CppSignature._from_grouped_arguments
CppSignature_from_grouped_arguments(f, arguments, faithful) ==
    LET argument_packs ==
            IF faithful
            THEN [i \in DOMAIN arguments |->
                     CppArgumentPack_no_default(cpp_argument_faithful(arguments[i]))]
            ELSE [i \in DOMAIN arguments |-> cpp_argument(arguments[i])]
    IN  CppSignature(f, argument_packs, returns_type(f.returns))

\* class CppSignatureGroup
CppSignatureGroup(f, sig, faithful) ==
    [func |-> f, signature |-> sig, faithful_signature |-> faithful]

\* CppSignatureGroup.from_schema building the faithful signature for every schema.
CppSignatureGroup_from_schema_always(f, m) ==
    LET grouped == cpp_group_arguments(f, m)
        grouped_arguments == grouped.value
        faithful_signature ==
            Some(CppSignature_from_grouped_arguments(f, grouped_arguments, TRUE))
        signature == CppSignature_from_grouped_arguments(f, grouped_arguments, FALSE)
    IN  IF ~grouped.ok THEN grouped
        ELSE Ok(CppSignatureGroup(f, signature, faithful_signature))

\* CppSignatureGroup.from_schema catching the grouper's exception and building
\* the group from the flat schema arguments.
CppSignatureGroup_from_schema_fallback(f, m) ==
    LET grouped == cpp_group_arguments(f, m)
        grouped_arguments ==
            IF grouped.ok THEN grouped.value
            ELSE [i \in DOMAIN f.arguments |-> PlainGrouped(f.arguments[i])]
        faithful_signature ==
            IF \E i \in DOMAIN grouped_arguments :
                   grouped_arguments[i].kind = "TensorOptionsArguments"
            THEN Some(CppSignature_from_grouped_arguments(f, grouped_arguments, TRUE))
            ELSE None
        signature == CppSignature_from_grouped_arguments(f, grouped_arguments, FALSE)
    IN  Ok(CppSignatureGroup(f, signature, faithful_signature))

\* CppSignatureGroup.from_schema; an exception of the grouper propagates.
CppSignatureGroup_from_schema(f, m) ==
    LET grouped == cpp_group_arguments(f, m)
        grouped_arguments == grouped.value
        faithful_signature ==
            IF \E i \in DOMAIN grouped_arguments :
                   grouped_arguments[i].kind = "TensorOptionsArguments"
            THEN Some(CppSignature_from_grouped_arguments(f, grouped_arguments, TRUE))
            ELSE None
        signature == CppSignature_from_grouped_arguments(f, grouped_arguments, FALSE)
    IN  IF ~grouped.ok THEN grouped
        ELSE Ok(CppSignatureGroup(f, signature, faithful_signature))

\* -------------------------------------------------------- dispatcher types

\* class DispatcherArgument
DispatcherArgument(t, n, a) == [type |-> t, name |-> n, argument |-> a]

\* DispatcherArgument.__str__ rendering the type alone.
DispatcherArgument_str_type_only(a) == << a.type >>

\* DispatcherArgument.__str__
DispatcherArgument_str(a) == << a.type, " ", a.name >>

\* dispatcher.arguments: the raw schema, flat.
dispatcher_arguments(f) ==
    [i \in DOMAIN f.arguments |->
        DispatcherArgument(argument_type(f.arguments[i].type), f.arguments[i].name,
                           f.arguments[i])]

\* class DispatcherSignature
DispatcherSignature(f, args, ret) == [func |-> f, arguments |-> args, returns_type |-> ret]

\* DispatcherSignature.arguments
DispatcherSignature_arguments(sig) == sig.arguments

\* DispatcherSignature.defn
DispatcherSignature_defn(sig, name) ==
    LET args == DispatcherSignature_arguments(sig)
        args_str == Join(CommaSpace, [i \in DOMAIN args |-> DispatcherArgument_str(args[i])])
        nm == IF name = None THEN native_name(sig.func) ELSE name[1]
    IN  << sig.returns_type, " ", nm, "(" >> \o args_str \o << ")" >>

\* DispatcherSignature.type rendering each argument with its name.
DispatcherSignature_type_named(sig) ==
    LET dispatcher_args_types_str ==
            Join(CommaSpace,
                 [i \in DOMAIN sig.arguments |-> << sig.arguments[i].type, " ",
                                                    sig.arguments[i].name >>])
    IN  << sig.returns_type, " ", "(" >> \o dispatcher_args_types_str \o << ")" >>

\* DispatcherSignature.type
DispatcherSignature_type(sig) ==
    LET dispatcher_args_types_str ==
            Join(CommaSpace, [i \in DOMAIN sig.arguments |-> << sig.arguments[i].type >>])
    IN  << sig.returns_type, " ", "(" >> \o dispatcher_args_types_str \o << ")" >>

\* DispatcherSignature.from_schema
DispatcherSignature_from_schema(f) ==
    DispatcherSignature(f, dispatcher_arguments(f), returns_type(f.returns))

\* ------------------------------------------------------------ native types

\* class NativeArgument
NativeArgument(t, n, d, a) == [type |-> t, name |-> n, default |-> d, argument |-> a]

\* native.arguments: the raw schema, flat, each default kept.
native_arguments(f) ==
    [i \in DOMAIN f.arguments |->
        NativeArgument(argument_type(f.arguments[i].type), f.arguments[i].name,
                       f.arguments[i].default, f.arguments[i])]

\* class NativeSignature
NativeSignature(f, args, ret) == [func |-> f, arguments |-> args, returns_type |-> ret]

\* NativeSignature.arguments
NativeSignature_arguments(sig) == sig.arguments

\* NativeSignature.from_schema
NativeSignature_from_schema(f) ==
    NativeSignature(f, native_arguments(f), returns_type(f.returns))

\* -------------------------------------------------------------- the run
\* One generation pass over one schema entry: the three signatures are built,
\* then one of their accessors or renderers is called and leaves its arguments
\* and result in out.  The calls are pure, so a run records one call: a later
\* call would read the same signatures and only overwrite out.

\* The names and prefixes a caller gives defn.
DefnNames == { None, Some("bar") }

DefnPrefixes == { "", "at::" }

\* The built group, and its signatures: the default one, then the faithful
\* one when present.
Group == cpp_group[1].value

FrontSignatures == << Group.signature >> \o Group.faithful_signature

Built == pc = "built" /\ out.op = "none"

\* The grouped arguments from_schema built the group from.
Grouped ==
    LET grouped == cpp_group_arguments(func, method)
    IN  IF grouped.ok THEN grouped.value ELSE << >>

\* The packs no_default is called on: those of each signature, and those
\* cpp.argument_faithful returns, whose defaults are still in place.
PackLists ==
    [k \in DOMAIN FrontSignatures |-> FrontSignatures[k].argument_packs]
      \o << [i \in DOMAIN Grouped |-> cpp_argument_faithful(Grouped[i])] >>

Init ==
    /\ func \in Schemas
    /\ method \in BOOLEAN
    /\ pc = "schema"
    /\ dispatcher_sig = None
    /\ native_sig = None
    /\ cpp_group = None
    /\ grouper_runs = 0
    /\ out = [op |-> "none"]

\* DispatcherSignature.from_schema(func)
BuildDispatcher ==
    /\ pc = "schema"
    /\ dispatcher_sig' = Some(DispatcherSignature_from_schema(func))
    /\ pc' = "dispatcher"
    /\ UNCHANGED <<func, method, native_sig, cpp_group, grouper_runs, out>>

\* NativeSignature.from_schema(func)
BuildNative ==
    /\ pc = "dispatcher"
    /\ native_sig' = Some(NativeSignature_from_schema(func))
    /\ pc' = "native"
    /\ UNCHANGED <<func, method, dispatcher_sig, cpp_group, grouper_runs, out>>

\* CppSignatureGroup.from_schema(func, method=method)
BuildCpp ==
    /\ pc = "native"
    /\ cpp_group' = Some(CppSignatureGroup_from_schema(func, method))
    /\ grouper_runs' = grouper_runs + 1
    /\ pc' = IF cpp_group'[1].ok THEN "built" ELSE "failed"
    /\ UNCHANGED <<func, method, dispatcher_sig, native_sig, out>>

\* sig.decl()
Decl ==
    /\ Built
    /\ LET sigs == FrontSignatures
       IN  \E k \in DOMAIN sigs :
             out' = [op |-> "decl", which |-> k, text |-> CppSignature_decl(sigs[k])]
    /\ UNCHANGED <<func, method, pc, dispatcher_sig, native_sig, cpp_group, grouper_runs>>

\* sig.defn(name, prefix=prefix)
Defn ==
    /\ Built
    /\ LET sigs == FrontSignatures
       IN  \E k \in DOMAIN sigs, name \in DefnNames, prefix \in DefnPrefixes :
             out' = [op |-> "defn", which |-> k, name |-> name, prefix |-> prefix,
                     text |-> CppSignature_defn(sigs[k], name, prefix)]
    /\ UNCHANGED <<func, method, pc, dispatcher_sig, native_sig, cpp_group, grouper_runs>>

\* pack.no_default(), and no_default() of its result, on a pack of either
\* signature or on a pack as cpp.argument_faithful returns it.
NoDefault ==
    /\ Built
    /\ LET lists == PackLists
       IN  \E k \in DOMAIN lists :
             \E i \in DOMAIN lists[k] :
               LET pack == lists[k][i]
                   once == CppArgumentPack_no_default(pack)
               IN  out' = [op |-> "no_default", which |-> k, index |-> i, pack |-> pack,
                           once |-> once, twice |-> CppArgumentPack_no_default(once)]
    /\ UNCHANGED <<func, method, pc, dispatcher_sig, native_sig, cpp_group, grouper_runs>>

\* dispatcher_sig.defn(name)
DispatcherDefn ==
    /\ pc \in { "built", "failed" }
    /\ out.op = "none"
    /\ \E name \in DefnNames :
           out' = [op |-> "dispatcher_defn", name |-> name,
                   text |-> DispatcherSignature_defn(dispatcher_sig[1], name)]
    /\ UNCHANGED <<func, method, pc, dispatcher_sig, native_sig, cpp_group, grouper_runs>>

\* dispatcher_sig.type()
DispatcherType ==
    /\ pc \in { "built", "failed" }
    /\ out.op = "none"
    /\ out' = [op |-> "dispatcher_type", text |-> DispatcherSignature_type(dispatcher_sig[1])]
    /\ UNCHANGED <<func, method, pc, dispatcher_sig, native_sig, cpp_group, grouper_runs>>

Next ==
    \/ BuildDispatcher
    \/ BuildNative
    \/ BuildCpp
    \/ Decl
    \/ Defn
    \/ NoDefault
    \/ DispatcherDefn
    \/ DispatcherType

Spec == Init /\ [][Next]_vars

\* ------------------------------------------------------------ properties

\* from_schema has returned a group.
Returned == cpp_group # None /\ cpp_group[1].ok

\* from_schema has raised.
Raised == cpp_group # None /\ ~cpp_group[1].ok

\* The number of resource-options roles the schema's arguments fill.
NRoles == Cardinality(RolesPresent(func))

\* The bundle of the schema's four resource-options arguments.
Bundle ==
    TensorOptionsArguments(RoleArg(func, "dtype"), RoleArg(func, "layout"),
                           RoleArg(func, "device"), RoleArg(func, "pin_memory"))

\* The (name, type) pairs of a sequence of arguments of any surface.
Pairs(args) == { << args[i].name, args[i].type >> : i \in DOMAIN args }

\* The (name, type) pairs of the receivers among a signature's packs.
ReceiverPairs(sig) ==
    { << sig.argument_packs[i].argument.argument.name, sig.argument_packs[i].type >> :
        i \in { j \in DOMAIN sig.argument_packs :
                  sig.argument_packs[j].kind = "CppThisArgumentPack" } }

RECURSIVE StripDefaults(_)
\* A rendered text with every "=" and the default after it left out.
StripDefaults(text) ==
    IF text = << >> THEN << >>
    ELSE IF Head(text) = "=" THEN StripDefaults(Tail(Tail(text)))
    ELSE << Head(text) >> \o StripDefaults(Tail(text))

\* C1: from_schema runs the grouper once and returns a group whose default
\* signature is present, whose faithful signature is present exactly when the
\* grouped arguments hold a TensorOptionsArguments bundle, and whose group,
\* default signature and faithful signature all refer to the input schema.
C1_FromSchemaGroup ==
    Returned =>
        /\ grouper_runs = 1
        /\ DOMAIN Group = { "func", "signature", "faithful_signature" }
        /\ Group.signature.returns_type = returns_type(func.returns)
        /\ Len(Group.faithful_signature) <= 1
        /\ (Group.faithful_signature # None) <=>
               (\E i \in DOMAIN Grouped : Grouped[i].kind = "TensorOptionsArguments")
        /\ Group.func = func
        /\ Group.signature.func = func
        /\ \A i \in DOMAIN Group.faithful_signature : Group.faithful_signature[i].func = func

\* A group with a faithful signature has been returned for a method schema.
C1_Witness ==
    /\ Returned
    /\ method
    /\ Group.faithful_signature # None
    /\ NRoles = 4

\* C2: every explicit argument of a faithful signature has no default,
\* whatever defaults the schema arguments carry, and the faithful
\* signature's decl() holds no "=".
C2_FaithfulNoDefaults ==
    /\ Returned =>
           \A k \in DOMAIN Group.faithful_signature :
             LET args == CppSignature_arguments(Group.faithful_signature[k])
             IN  \A i \in DOMAIN args : args[i].default = None
    /\ (out.op = "decl" /\ out.which = 2) => "=" \notin Range(out.text)

\* The faithful decl() of a schema whose plain argument and whose four
\* resource-options arguments all carry defaults has been rendered.
C2_Witness ==
    /\ out.op = "decl"
    /\ out.which = 2
    /\ \E i \in DOMAIN func.arguments :
           ~IsAnyRole(func.arguments[i]) /\ func.arguments[i].default # None
    /\ \A r \in RoleSet : RoleArg(func, r).default # None

\* C3: for a method schema the receiver is in the explicit arguments of
\* neither front signature, and is, by the same name and type, among the
\* arguments of the dispatcher signature and of the native signature.
C3_ReceiverElided ==
    (Returned /\ method) =>
        \A k \in DOMAIN FrontSignatures :
          LET sig == FrontSignatures[k]
              args == CppSignature_arguments(sig)
              recv == ReceiverPairs(sig)
          IN  /\ Cardinality(recv) = 1
              /\ \A i \in DOMAIN args :
                   /\ args[i].argument # func.arguments[1]
                   /\ << args[i].name, args[i].type >> \notin recv
              /\ recv \subseteq Pairs(DispatcherSignature_arguments(dispatcher_sig[1]))
              /\ recv \subseteq Pairs(NativeSignature_arguments(native_sig[1]))

\* The group of a method schema with a receiver, a plain argument and a
\* bundle has been built.
C3_Witness ==
    /\ Returned
    /\ method
    /\ Len(FrontSignatures) = 2
    /\ Len(func.arguments) = 6

\* C4: a schema filling 1, 2 or 3 of the four resource-options roles fails
\* with PartialResourceOptionsGroup: from_schema returns no group.
C4_PartialRaises ==
    (cpp_group # None /\ NRoles \in { 1, 2, 3 }) =>
        /\ Raised
        /\ cpp_group[1].error = "PartialResourceOptionsGroup"
        /\ "value" \notin DOMAIN cpp_group[1]
        /\ pc = "failed"

\* from_schema has raised on a schema filling two of the four roles.
C4_Witness ==
    /\ Raised
    /\ NRoles = 2
    /\ pc = "failed"

Ungrouped == FrontSignatures[Len(FrontSignatures)]

DefnName(f, name, prefix) == IF name # None THEN name[1] ELSE prefix \o f.name

\* C6: defn(name, prefix) renders decl()'s return type and parameter list
\* with every "=<default>" left out, under the explicit name when one is
\* given and otherwise under the prefix followed by the schema's name.
C6_DefnIsDeclWithoutDefaults ==
    out.op = "defn" =>
        LET sig == FrontSignatures[out.which]
            decl == CppSignature_decl(sig)
            args == CppSignature_arguments(sig)
        IN  /\ decl[3] = func.name
            /\ out.text = [StripDefaults(decl) EXCEPT ![3] = DefnName(func, out.name, out.prefix)]
            /\ "=" \notin Range(out.text)
            /\ Len(decl) = Len(out.text)
                   + 2 * Cardinality({ i \in DOMAIN args : args[i].default # None })

\* defn has been rendered under an explicit name, with a prefix given, for a
\* default signature two of whose arguments carry defaults.
C6_Witness ==
    /\ out.op = "defn"
    /\ out.which = 1
    /\ out.name = Some("bar")
    /\ out.prefix = "at::"
    /\ LET args == CppSignature_arguments(FrontSignatures[1])
       IN  Cardinality({ i \in DOMAIN args : args[i].default # None }) = 2

\* The types of the schema's arguments as the dispatcher renders them.
DispatchTypes == [i \in DOMAIN func.arguments |-> << argument_type(func.arguments[i].type) >>]

C9_CompositeDefault ==
    (Returned /\ NRoles = 4) =>
        LET args == CppSignature_arguments(Group.signature)
            comp == { i \in DOMAIN args : args[i].argument = Bundle }
        IN  /\ Cardinality(comp) = 1
            /\ \A i \in DOMAIN args : \A r \in RoleSet : args[i].argument # RoleArg(func, r)
            /\ Len(args) = Len(func.arguments) - 3 - (IF method THEN 1 ELSE 0)
            /\ \A i \in comp :
                 (args[i].default # None) <=> (\A r \in RoleSet : RoleArg(func, r).default # None)

\* A default signature has been built over a bundle whose four arguments all
\* carry defaults.
C9_Witness ==
    /\ Returned
    /\ NRoles = 4
    /\ \A r \in RoleSet : RoleArg(func, r).default # None

\* C10: no_default() of a pack keeps the pack's kind and the length and
\* order of its explicit arguments, each with the same type, name and source
\* argument and with no default; applied again it changes nothing more; a
\* receiver pack comes back as it is; the pack it was called on is unchanged.
C10_NoDefault ==
    out.op = "no_default" =>
        LET before == CppArgumentPack_explicit_arguments(out.pack)
            after == CppArgumentPack_explicit_arguments(out.once)
        IN  /\ out.twice = out.once
            /\ out.once.kind = out.pack.kind
            /\ Len(after) = Len(before)
            /\ \A i \in DOMAIN after :
                 /\ after[i].type = before[i].type
                 /\ after[i].name = before[i].name
                 /\ after[i].argument = before[i].argument
                 /\ after[i].default = None
            /\ out.pack.kind = "CppThisArgumentPack" => out.once = out.pack
            /\ PackLists[out.which][out.index] = out.pack

\* no_default() has been called on a resource-options pack whose four
\* arguments carry defaults.
C10_Witness ==
    /\ out.op = "no_default"
    /\ out.pack.kind = "CppTensorOptionsArgumentPack"
    /\ \A i \in 1..4 : CppArgumentPack_explicit_arguments(out.pack)[i].default # None
    /\ out.once # out.pack

====
